---- MODULE Spec2Model ----
(***************************************************************************)
(* The self-update pipeline of her-serve (app/self_update.py): one call of *)
(* apply_file_update is a sequence of steps over a shared file system, and *)
(* the caller issues calls one after another.  The module reads            *)
(* config.PROJECT_ROOT and config.UPDATE_BRANCH; they are taken as set by  *)
(* the deployment.                                                         *)
(***************************************************************************)
EXTENDS Integers, Sequences, FiniteSets, TLC

\* ---------------------------------------------------------------- bounds
\* Longest file content, in characters.
MaxLen == 1

\* Most reporter calls in one run.
MaxCalls == 3

\* ------------------------------------------------------------- the inputs
Chars == {"A", "B"}

RECURSIVE SeqsUpTo(_)
SeqsUpTo(n) ==
    IF n = 0 THEN {<<>>}
    ELSE LET shorter == SeqsUpTo(n - 1)
         IN  shorter \cup {Append(s, c) : s \in {t \in shorter : Len(t) = n - 1}, c \in Chars}

\* File contents: the strings over Chars of at most MaxLen characters.
Contents == SeqsUpTo(MaxLen)

Prefixes(data) == {SubSeq(data, 1, k) : k \in 0..Len(data)}

\* A path segment holding a NUL character.
NulSeg == "a\\0"

\* rel_path arguments: sequences of segments; a leading "/" makes the
\* argument an absolute path.
RelPaths ==
    { <<"a">>, <<"m">>, <<"a", "..">>, <<"a", "a">>,
      <<"..", "a">>, <<"..", "m">>, <<"..", "..">>,
      <<"/", "a">>, <<"/", "m">>, <<NulSeg>> }

Messages == {"update"}

Goals == {"add a route"}

\* ------------------------------------------------------------------ paths
\* Absolute paths are sequences of segments below "/"; <<>> is "/" itself.
ROOT_DIR == <<"her">>

UPDATE_BRANCH == "main"

NoPath == <<"?">>

\* ROOT_DIR / rel_path: an absolute right operand replaces the left one.
JoinPath(base, rel) ==
    IF rel # <<>> /\ rel[1] = "/" THEN Tail(rel) ELSE base \o rel

RECURSIVE Normalise(_, _)
Normalise(done, rest) ==
    IF rest = <<>> THEN done
    ELSE IF rest[1] = ".."
         THEN Normalise(IF done = <<>> THEN <<>> ELSE SubSeq(done, 1, Len(done) - 1),
                        Tail(rest))
         ELSE Normalise(Append(done, rest[1]), Tail(rest))

\* Path.resolve(): raises on an embedded NUL, else removes the ".." segments.
ResolveRaises(p) == \E i \in 1..Len(p) : p[i] = NulSeg

Resolve(p) == Normalise(<<>>, p)

\* Path.parents: the proper ancestors of p.
Parents(p) == {SubSeq(p, 1, k) : k \in 0..(Len(p) - 1)}

\* target_path.with_suffix(target_path.suffix + ".bak")
WithSuffixBak(p) == [p EXCEPT ![Len(p)] = @ \o ".bak"]

\* ------------------------------------------------------------ file system
Dir == [kind |-> "dir", data |-> <<>>]

File(data) == [kind |-> "file", data |-> data]

Exists(f, p) == p \in DOMAIN f

Put(f, p, node) == [q \in DOMAIN f \cup {p} |-> IF q = p THEN node ELSE f[q]]

Remove(f, p) == [q \in DOMAIN f \ {p} |-> f[q]]

\* The outcomes of shutil.copy2(src, dst): the copy, or a fault that leaves
\* the destination untouched or holding a prefix of the source (up to all of
\* it, when copying the metadata is what fails).
Copy2(f, src, dst) ==
    IF ~Exists(f, src) \/ f[src].kind = "dir"
    THEN {[fs |-> f, ok |-> FALSE]}
    ELSE LET dest == IF Exists(f, dst) /\ f[dst].kind = "dir"
                     THEN Append(dst, src[Len(src)])
                     ELSE dst
         IN  IF dest = src \/ (Exists(f, dest) /\ f[dest].kind = "dir")
             THEN {[fs |-> f, ok |-> FALSE]}
             ELSE {[fs |-> Put(f, dest, File(f[src].data)), ok |-> TRUE],
                   [fs |-> f, ok |-> FALSE]}
                  \cup {[fs |-> Put(f, dest, File(d)), ok |-> FALSE] :
                          d \in Prefixes(f[src].data)}

\* The outcomes of Path.write_text(content): as for a copy.
WriteText(f, p, content) ==
    IF Exists(f, p) /\ f[p].kind = "dir"
    THEN {[fs |-> f, ok |-> FALSE]}
    ELSE {[fs |-> Put(f, p, File(content)), ok |-> TRUE],
          [fs |-> f, ok |-> FALSE]}
         \cup {[fs |-> Put(f, p, File(d)), ok |-> FALSE] : d \in Prefixes(content)}

\* --------------------------------------------------------------- commands
NothingToCommit == "nothing to commit, working tree clean"

\* str.lower() on the texts a command prints.
Lower(s) ==
    CASE s = "Nothing To Commit" -> "nothing to commit"
      [] s = "fatal: failed" -> "fatal: failed"
      [] OTHER -> s

\* "nothing to commit" in s
HasNothingToCommit(s) == s \in {"nothing to commit", NothingToCommit}

\* What a command that was launched can return: exit code and both streams.
CmdOutputs ==
    { [returncode |-> 0, stdout |-> "", stderr |-> ""],
      [returncode |-> 1, stdout |-> "", stderr |-> "fatal: failed"],
      [returncode |-> 1, stdout |-> "", stderr |-> NothingToCommit],
      [returncode |-> 1, stdout |-> "", stderr |-> "Nothing To Commit"],
      [returncode |-> 1, stdout |-> NothingToCommit, stderr |-> ""] }

\* run_cmd: the result of a launched command.
RunCmd(cmd, out) ==
    [cmd |-> cmd, returncode |-> out.returncode,
     stdout |-> out.stdout, stderr |-> out.stderr]

\* The commands of git_commit_and_push, as run_cmd joins them.
GitCmds(message) ==
    << "git add .",
       "git commit -m " \o message,
       "git push origin " \o UPDATE_BRANCH >>

\* What the call in flight staged and committed: nothing yet.
Unstaged == [kind |-> "unstaged", data |-> <<>>]

NoVcs == [staged |-> Unstaged, commits |-> <<>>]

\* What the i-th command of the publish does to the local repository when it
\* exits 0: add stages the work tree's target, commit records what is
\* staged; push leaves the local repository as it is.
GitEffect(v, i, res, node) ==
    IF res.returncode # 0 THEN v
    ELSE CASE i = 1 -> [v EXCEPT !.staged = node]
           [] i = 2 -> [v EXCEPT !.commits = Append(@, v.staged)]
           [] OTHER -> v

\* ----------------------------------------------------------- the reporter
\* The threads that call the reporter concurrently.
Threads == {"t1", "t2"}

\* The texts passed to record_error.
Errors == {"e1", "e2"}

\* Optional values: None and a present value.
None == <<>>

Some(x) == <<x>>

\* HealAction(name, status, detail)
HealAction(name, status, detail) == <<name, status, detail>>

\* a.__dict__
AsDict(a) == [name |-> a[1], status |-> a[2], detail |-> a[3]]

\* SelfHealState(): the defaults of the dataclass.
NewSelfHealState ==
    [last_error |-> None, openai_ok |-> TRUE, firestore_ok |-> TRUE, history |-> <<>>]

NoReturn == [op |-> "none"]

NoLocal == [op |-> "none", err |-> "", actions |-> <<>>, openai_ok |-> TRUE, hist |-> <<>>]

\* The callers whose apply calls may overlap, and the file both update.
Callers == {"c1", "c2"}

SharedRelPath == <<"a">>

\* A caller that has not called yet.
NotCalled == [pc |-> "idle"]

\* ------------------------------------------------------------------ state
VARIABLES
    fs,              \* the file system: path -> node, for the paths that exist
    enabled,         \* config.AUTO_UPDATE_ENABLED
    pc,              \* the position of the call in flight
    op,              \* "apply", "plan" or "none"
    rel_path, new_content, commit_message,     \* the arguments of the call
    target_path, backup_path,
    test_result,     \* run_tests()'s result
    logs,            \* git_commit_and_push's logs
    git_result,      \* git_commit_and_push's result
    exc,             \* the exception in flight
    result,          \* the value returned to the caller
    fs0,             \* the file system when the call started
    trace,           \* what the call did so far: steps taken, commands run
    vcs,             \* what the call staged and committed in the local repository
    state,           \* SelfHealer.state, the reporter's SelfHealState
    hret,            \* what the last reporter call returned
    hcalls,          \* the reporter calls completed so far, with their entries
    tpc,             \* per thread: its position in its reporter call
    tlocal,          \* per thread: the call's argument and local actions list
    ocall            \* per caller: the locals of its apply call, for calls that overlap

vars == << fs, enabled, pc, op, rel_path, new_content, commit_message,
           target_path, backup_path, test_result, logs, git_result, exc,
           result, fs0, trace, vcs, state, hret, hcalls, tpc, tlocal, ocall >>

\* The reporter's variables; the update pipeline never touches them.
hvars == << state, hret, hcalls, tpc, tlocal >>

\* The pipeline's variables; the reporter never touches them.
pvars == << fs, enabled, pc, op, rel_path, new_content, commit_message,
            target_path, backup_path, test_result, logs, git_result, exc,
            result, fs0, trace, vcs >>

NoResult == [status |-> "none"]

NoExc == "none"

Event(step, ok) == [step |-> step, ok |-> ok]

\* The project root holds file a; a file a lies next to the project root.
InitFs ==
    [p \in {<<>>, ROOT_DIR, ROOT_DIR \o <<"a">>, <<"a">>} |->
        IF p \in {<<>>, ROOT_DIR} THEN Dir ELSE File(<<"A">>)]

Init ==
    /\ fs = InitFs
    /\ enabled \in BOOLEAN
    /\ pc = "idle"
    /\ op = "none"
    /\ rel_path = <<>>
    /\ new_content = <<>>
    /\ commit_message = ""
    /\ target_path = NoPath
    /\ backup_path = NoPath
    /\ test_result = NoResult
    /\ logs = <<>>
    /\ git_result = NoResult
    /\ exc = NoExc
    /\ result = NoResult
    /\ fs0 = InitFs
    /\ trace = <<>>
    /\ vcs = NoVcs
    /\ state = NewSelfHealState
    /\ hret = NoReturn
    /\ hcalls = <<>>
    /\ tpc = [t \in Threads |-> "idle"]
    /\ tlocal = [t \in Threads |-> NoLocal]
    /\ ocall = [c \in Callers |-> NotCalled]

\* The caller may start a call when none is in flight.
CanCall == pc \in {"idle", "returned", "raised"}

\* apply_file_update(rel_path, new_content, commit_message) is entered.
BeginApply(rp, nc, msg) ==
    /\ CanCall
    /\ pc' = "resolve"
    /\ op' = "apply"
    /\ rel_path' = rp
    /\ new_content' = nc
    /\ commit_message' = msg
    /\ target_path' = NoPath
    /\ backup_path' = NoPath
    /\ test_result' = NoResult
    /\ logs' = <<>>
    /\ git_result' = NoResult
    /\ exc' = NoExc
    /\ result' = NoResult
    /\ fs0' = fs
    /\ trace' = <<>>
    /\ UNCHANGED << fs, enabled >>
    /\ UNCHANGED << hvars, ocall >>
    /\ vcs' = NoVcs

\* make_update_plan(target_file, goal): returns the plan, touches nothing.
SuggestedSteps ==
    << "read the current file", "design the change for the goal",
       "generate the full new file content", "call /admin/self_update_apply" >>

\* A plan that also leaves a marker file in the project root.
MakeUpdatePlan_Touches(tf, goal) ==
    /\ CanCall
    /\ pc' = "returned"
    /\ op' = "plan"
    /\ result' = [target_file |-> tf, goal |-> goal, suggested_steps |-> SuggestedSteps]
    /\ fs' = Put(fs, Append(ROOT_DIR, "plan"), File(<<>>))
    /\ fs0' = fs
    /\ trace' = <<>>
    /\ vcs' = NoVcs
    /\ UNCHANGED << enabled, rel_path, new_content, commit_message, target_path,
                    backup_path, test_result, logs, git_result, exc >>
    /\ UNCHANGED << hvars, ocall >>

MakeUpdatePlan(tf, goal) ==
    /\ CanCall
    /\ pc' = "returned"
    /\ op' = "plan"
    /\ result' = [target_file |-> tf, goal |-> goal, suggested_steps |-> SuggestedSteps]
    /\ rel_path' = <<>>
    /\ new_content' = <<>>
    /\ commit_message' = ""
    /\ target_path' = NoPath
    /\ backup_path' = NoPath
    /\ test_result' = NoResult
    /\ logs' = <<>>
    /\ git_result' = NoResult
    /\ exc' = NoExc
    /\ fs0' = fs
    /\ trace' = <<>>
    /\ UNCHANGED << fs, enabled >>
    /\ UNCHANGED << hvars, ocall >>
    /\ vcs' = NoVcs

\* target_path = (ROOT_DIR / rel_path).resolve(), outside the try block: a
\* fault of the resolution propagates to the caller.
ResolveTarget ==
    /\ pc = "resolve"
    /\ LET p == JoinPath(ROOT_DIR, rel_path)
       IN  IF ResolveRaises(p)
           THEN /\ pc' = "raised"
                /\ exc' = "ValueError: embedded null byte"
                /\ UNCHANGED target_path
           ELSE /\ pc' = "exists"
                /\ target_path' = Resolve(p)
                /\ UNCHANGED exc
    /\ UNCHANGED << fs, enabled, op, rel_path, new_content, commit_message,
                    backup_path, test_result, logs, git_result, result, fs0, trace >>
    /\ UNCHANGED << hvars, ocall >>
    /\ UNCHANGED vcs

\* CheckExists without the test: the call goes on to the containment check.
CheckExists_Skipped ==
    /\ pc = "exists"
    /\ pc' = "root"
    /\ UNCHANGED << fs, enabled, op, rel_path, new_content, commit_message,
                    target_path, backup_path, test_result, logs, git_result,
                    exc, result, fs0, trace >>
    /\ UNCHANGED << hvars, ocall >>
    /\ UNCHANGED vcs

\* if not target_path.exists(): return file_not_found
CheckExists ==
    /\ pc = "exists"
    /\ IF ~Exists(fs, target_path)
       THEN /\ pc' = "returned"
            /\ result' = [status |-> "error", reason |-> "file_not_found",
                          detail |-> target_path]
       ELSE /\ pc' = "root"
            /\ UNCHANGED result
    /\ UNCHANGED << fs, enabled, op, rel_path, new_content, commit_message,
                    target_path, backup_path, test_result, logs, git_result,
                    exc, fs0, trace >>
    /\ UNCHANGED << hvars, ocall >>
    /\ UNCHANGED vcs

\* if ROOT_DIR not in target_path.parents and target_path != ROOT_DIR:
\* return outside_project_root; else backup_path is the target plus ".bak".
CheckRoot ==
    /\ pc = "root"
    /\ IF ROOT_DIR \notin Parents(target_path) /\ target_path # ROOT_DIR
       THEN /\ pc' = "returned"
            /\ result' = [status |-> "error", reason |-> "outside_project_root",
                          detail |-> target_path]
            /\ UNCHANGED backup_path
       ELSE /\ pc' = "backup"
            /\ backup_path' = WithSuffixBak(target_path)
            /\ UNCHANGED result
    /\ UNCHANGED << fs, enabled, op, rel_path, new_content, commit_message,
                    target_path, test_result, logs, git_result, exc, fs0, trace >>
    /\ UNCHANGED << hvars, ocall >>
    /\ UNCHANGED vcs

\* 1. shutil.copy2(target_path, backup_path)
Backup ==
    /\ pc = "backup"
    /\ \E o \in Copy2(fs, target_path, backup_path) :
          /\ fs' = o.fs
          /\ trace' = Append(trace, Event("backup", o.ok))
          /\ IF o.ok
             THEN pc' = "write" /\ UNCHANGED exc
             ELSE pc' = "except" /\ exc' = "backup failed"
    /\ UNCHANGED << enabled, op, rel_path, new_content, commit_message,
                    target_path, backup_path, test_result, logs, git_result,
                    result, fs0 >>
    /\ UNCHANGED << hvars, ocall >>
    /\ UNCHANGED vcs

\* 2. target_path.write_text(new_content, encoding="utf-8")
WriteNew ==
    /\ pc = "write"
    /\ \E o \in WriteText(fs, target_path, new_content) :
          /\ fs' = o.fs
          /\ trace' = Append(trace, Event("write", o.ok))
          /\ IF o.ok
             THEN pc' = "test" /\ UNCHANGED exc
             ELSE pc' = "except" /\ exc' = "write failed"
    /\ UNCHANGED << enabled, op, rel_path, new_content, commit_message,
                    target_path, backup_path, test_result, logs, git_result,
                    result, fs0 >>
    /\ UNCHANGED << hvars, ocall >>
    /\ UNCHANGED vcs

\* run_tests(): run_cmd(["pytest"]) plus success = (returncode == 0)
TestResult(out) ==
    [cmd |-> "pytest", returncode |-> out.returncode, stdout |-> out.stdout,
     stderr |-> out.stderr, success |-> (out.returncode = 0)]

\* 3. test_result = run_tests(); a command that cannot be launched raises.
RunTests ==
    /\ pc = "test"
    /\ \/ /\ trace' = Append(trace, Event("pytest", FALSE))
          /\ exc' = "pytest failed to launch"
          /\ pc' = "except"
          /\ UNCHANGED test_result
       \/ \E out \in CmdOutputs :
             /\ trace' = Append(trace, Event("pytest", TRUE))
             /\ test_result' = TestResult(out)
             /\ pc' = IF test_result'.success THEN "git" ELSE "rollback_tests"
             /\ UNCHANGED exc
    /\ UNCHANGED << fs, enabled, op, rel_path, new_content, commit_message,
                    target_path, backup_path, logs, git_result, result, fs0 >>
    /\ UNCHANGED << hvars, ocall >>
    /\ UNCHANGED vcs

\* Restore by shutil.move: the backup is renamed over the target.
Restore_ByMove(f, bp, tp) ==
    IF ~Exists(f, bp) \/ f[bp].kind = "dir" \/ (Exists(f, tp) /\ f[tp].kind = "dir")
    THEN {[fs |-> f, ok |-> FALSE]}
    ELSE {[fs |-> Put(Remove(f, bp), tp, f[bp]), ok |-> TRUE],
          [fs |-> f, ok |-> FALSE]}

\* shutil.copy2(backup_path, target_path), the restore of every failure path
Restore(f, bp, tp) == Copy2(f, bp, tp)

\* if not test_result.get("success"): restore, return tests_failed
RollbackTests ==
    /\ pc = "rollback_tests"
    /\ \E o \in Restore(fs, backup_path, target_path) :
          /\ fs' = o.fs
          /\ trace' = Append(trace, Event("restore", o.ok))
          /\ IF o.ok
             THEN /\ pc' = "returned"
                  /\ result' = [status |-> "tests_failed", tests |-> test_result]
                  /\ UNCHANGED exc
             ELSE /\ pc' = "except"
                  /\ exc' = "restore failed"
                  /\ UNCHANGED result
    /\ UNCHANGED << enabled, op, rel_path, new_content, commit_message,
                    target_path, backup_path, test_result, logs, git_result, fs0 >>
    /\ UNCHANGED << hvars, ocall >>
    /\ UNCHANGED vcs

\* The test of git_commit_and_push on a command's result: it fails the publish.
StepFails(res) ==
    res.returncode # 0 /\ ~HasNothingToCommit(Lower(res.stderr))

\* One iteration of git_commit_and_push's loop over add, commit, push.
GitStep ==
    /\ pc = "git"
    /\ LET cmd == GitCmds(commit_message)[Len(logs) + 1]
       IN  \/ /\ trace' = Append(trace, Event(cmd, FALSE))
              /\ exc' = cmd \o " failed to launch"
              /\ pc' = "except"
              /\ UNCHANGED << logs, git_result, vcs >>
           \/ \E out \in CmdOutputs :
                 LET res == RunCmd(cmd, out)
                 IN  /\ trace' = Append(trace, Event(cmd, TRUE))
                     /\ logs' = Append(logs, res)
                     /\ vcs' = GitEffect(vcs, Len(logs) + 1, res, fs[target_path])
                     /\ UNCHANGED exc
                     /\ IF StepFails(res)
                        THEN /\ git_result' = [success |-> FALSE, step |-> res.cmd,
                                               log |-> logs']
                             /\ pc' = "published"
                        ELSE IF Len(logs') = Len(GitCmds(commit_message))
                             THEN /\ git_result' = [success |-> TRUE, log |-> logs']
                                  /\ pc' = "published"
                             ELSE /\ pc' = "git"
                                  /\ UNCHANGED git_result
    /\ UNCHANGED << fs, enabled, op, rel_path, new_content, commit_message,
                    target_path, backup_path, test_result, result, fs0 >>
    /\ UNCHANGED << hvars, ocall >>

\* if not git_result.get("success"): restore, return git_failed
RollbackGit ==
    /\ pc = "published"
    /\ ~git_result.success
    /\ \E o \in Restore(fs, backup_path, target_path) :
          /\ fs' = o.fs
          /\ trace' = Append(trace, Event("restore", o.ok))
          /\ IF o.ok
             THEN /\ pc' = "returned"
                  /\ result' = [status |-> "git_failed", git |-> git_result]
                  /\ UNCHANGED exc
             ELSE /\ pc' = "except"
                  /\ exc' = "restore failed"
                  /\ UNCHANGED result
    /\ UNCHANGED << enabled, op, rel_path, new_content, commit_message,
                    target_path, backup_path, test_result, logs, git_result, fs0 >>
    /\ UNCHANGED << hvars, ocall >>
    /\ UNCHANGED vcs

\* return {"status": "ok", "tests": test_result, "git": git_result}
ReturnOk ==
    /\ pc = "published"
    /\ git_result.success
    /\ pc' = "returned"
    /\ result' = [status |-> "ok", tests |-> test_result, git |-> git_result]
    /\ UNCHANGED << fs, enabled, op, rel_path, new_content, commit_message,
                    target_path, backup_path, test_result, logs, git_result,
                    exc, fs0, trace >>
    /\ UNCHANGED << hvars, ocall >>
    /\ UNCHANGED vcs

\* except Exception as e: restore if the backup exists; the inner finally
\* returns the exception result whatever the restore did.
HandleException ==
    /\ pc = "except"
    /\ IF Exists(fs, backup_path)
       THEN \E o \in Restore(fs, backup_path, target_path) :
               /\ fs' = o.fs
               /\ trace' = Append(trace, Event("restore", o.ok))
       ELSE UNCHANGED << fs, trace >>
    /\ pc' = "returned"
    /\ result' = [status |-> "error", reason |-> "exception", detail |-> exc]
    /\ UNCHANGED << enabled, op, rel_path, new_content, commit_message,
                    target_path, backup_path, test_result, logs, git_result,
                    exc, fs0 >>
    /\ UNCHANGED << hvars, ocall >>
    /\ UNCHANGED vcs

Next ==
    \/ \E rp \in RelPaths, nc \in Contents, msg \in Messages : BeginApply(rp, nc, msg)
    \/ \E tf \in RelPaths, goal \in Goals : MakeUpdatePlan(tf, goal)
    \/ ResolveTarget
    \/ CheckExists
    \/ CheckRoot
    \/ Backup
    \/ WriteNew
    \/ RunTests
    \/ RollbackTests
    \/ GitStep
    \/ RollbackGit
    \/ ReturnOk
    \/ HandleException

Spec == Init /\ [][Next]_vars

\* ------------------------------------------------- the reporter's methods
\* list.append and list.extend on state.history
HistoryAppend(h, a) == Append(h, a)

\* The list is assigned instead of extended.
HistoryExtend_Replace(h, actions) == actions

HistoryExtend(h, actions) == h \o actions

RecordErrorState_KeepsLast(st, err) ==
    [st EXCEPT !.history = HistoryAppend(@, HealAction("record_error", "logged", err))]

\* record_error(err): set last_error, append the marker.
RecordErrorState(st, err) ==
    [st EXCEPT !.last_error = Some(err),
               !.history = HistoryAppend(@, HealAction("record_error", "logged", err))]

OpenAiAction ==
    HealAction("check_openai_key", "needs_attention", "OPENAI_API_KEY may be invalid")

FirestoreAction ==
    HealAction("check_firestore", "needs_attention", "Firestore may be misconfigured")

OkAction == HealAction("basic_diagnostics", "ok", "nothing to repair")

Diagnose_AlwaysOk(st) ==
    (IF ~st.openai_ok THEN <<OpenAiAction>> ELSE <<>>)
        \o (IF ~st.firestore_ok THEN <<FirestoreAction>> ELSE <<>>)
        \o <<OkAction>>

\* The actions list run_basic_diagnostics builds from the health flags.
Diagnose(st) ==
    LET checks == (IF ~st.openai_ok THEN <<OpenAiAction>> ELSE <<>>)
                     \o (IF ~st.firestore_ok THEN <<FirestoreAction>> ELSE <<>>)
    IN  IF checks = <<>> THEN <<OkAction>> ELSE checks

HealSummary_NoError(st, actions) ==
    [status |-> "ok", last_error |-> None,
     actions |-> [i \in 1..Len(actions) |-> AsDict(actions[i])]]

\* heal()'s return value
HealSummary(st, actions) ==
    [status |-> "ok", last_error |-> st.last_error,
     actions |-> [i \in 1..Len(actions) |-> AsDict(actions[i])]]

\* A completed reporter call: its name, argument and the entries it logs.
Call(name, arg, entries) == [op |-> name, arg |-> arg, entries |-> entries]

\* Reporter calls made one after another, each run to completion.
RecordError(err) ==
    /\ Len(hcalls) < MaxCalls
    /\ state' = RecordErrorState(state, err)
    /\ hret' = [op |-> "record_error", value |-> None]
    /\ hcalls' = Append(hcalls, Call("record_error", err,
                                     <<HealAction("record_error", "logged", err)>>))
    /\ UNCHANGED << tpc, tlocal >>
    /\ UNCHANGED << pvars, ocall >>

RunBasicDiagnostics ==
    /\ Len(hcalls) < MaxCalls
    /\ LET actions == Diagnose(state)
       IN  /\ state' = [state EXCEPT !.history = HistoryExtend(@, actions)]
           /\ hret' = [op |-> "run_basic_diagnostics", value |-> actions]
           /\ hcalls' = Append(hcalls, Call("run_basic_diagnostics", "", actions))
    /\ UNCHANGED << tpc, tlocal >>
    /\ UNCHANGED << pvars, ocall >>

Heal ==
    /\ Len(hcalls) < MaxCalls
    /\ LET actions == Diagnose(state)
           after == [state EXCEPT !.history = HistoryExtend(@, actions)]
       IN  /\ state' = after
           /\ hret' = [op |-> "heal", value |-> HealSummary(after, actions)]
           /\ hcalls' = Append(hcalls, Call("heal", "", actions))
    /\ UNCHANGED << tpc, tlocal >>
    /\ UNCHANGED << pvars, ocall >>

\* A caller assigns the health flags of the state.
SetHealth(o, f) ==
    /\ << o, f >> # << state.openai_ok, state.firestore_ok >>
    /\ state' = [state EXCEPT !.openai_ok = o, !.firestore_ok = f]
    /\ UNCHANGED << hret, hcalls, tpc, tlocal >>
    /\ UNCHANGED << pvars, ocall >>

NextHeal ==
    \/ \E err \in Errors : RecordError(err)
    \/ RunBasicDiagnostics
    \/ Heal
    \/ \E o \in BOOLEAN, f \in BOOLEAN : SetHealth(o, f)

SpecHeal == Init /\ [][NextHeal]_vars

\* ------------------------------------ reporter calls from several threads
\* self.state.history evaluates to a reference to the shared list, not to a
\* copy: the method called on it acts on the list as it is at that moment.
ListObject_Copy(loaded, current) == loaded

ListObject(loaded, current) == current

\* Calls begun by the threads so far.
Begun == Len(hcalls) + Cardinality({t \in Threads : tpc[t] # "idle"})

\* record_error, line 34: self.state.last_error = err
T_RecordError_SetLast(t, err) ==
    /\ tpc[t] = "idle"
    /\ Begun < MaxCalls
    /\ state' = [state EXCEPT !.last_error = Some(err)]
    /\ tpc' = [tpc EXCEPT ![t] = "rec_load"]
    /\ tlocal' = [tlocal EXCEPT ![t] = [NoLocal EXCEPT !.op = "record_error", !.err = err]]
    /\ UNCHANGED << hret, hcalls >>
    /\ UNCHANGED << pvars, ocall >>

\* record_error, line 35: the load of self.state.history
T_RecordError_Load(t) ==
    /\ tpc[t] = "rec_load"
    /\ tpc' = [tpc EXCEPT ![t] = "rec_append"]
    /\ tlocal' = [tlocal EXCEPT ![t].hist = state.history]
    /\ UNCHANGED << state, hret, hcalls >>
    /\ UNCHANGED << pvars, ocall >>

\* record_error, lines 35-37: .append(HealAction(...)), one indivisible call
T_RecordError_Append(t) ==
    /\ tpc[t] = "rec_append"
    /\ LET a == HealAction("record_error", "logged", tlocal[t].err)
       IN  /\ state' = [state EXCEPT
                          !.history = HistoryAppend(ListObject(tlocal[t].hist, @), a)]
           /\ hcalls' = Append(hcalls, Call("record_error", tlocal[t].err, <<a>>))
    /\ tpc' = [tpc EXCEPT ![t] = "idle"]
    /\ tlocal' = [tlocal EXCEPT ![t] = NoLocal]
    /\ UNCHANGED hret
    /\ UNCHANGED << pvars, ocall >>

\* run_basic_diagnostics, lines 40-43: the read of state.openai_ok
T_Diagnostics_OpenAi(t) ==
    /\ tpc[t] = "idle"
    /\ Begun < MaxCalls
    /\ tpc' = [tpc EXCEPT ![t] = "diag_firestore"]
    /\ tlocal' = [tlocal EXCEPT ![t] = [NoLocal EXCEPT !.op = "run_basic_diagnostics",
                                                       !.openai_ok = state.openai_ok]]
    /\ UNCHANGED << state, hret, hcalls >>
    /\ UNCHANGED << pvars, ocall >>

\* run_basic_diagnostics, lines 53-69: the read of state.firestore_ok, after
\* which the local actions list is complete
T_Diagnostics_Firestore(t) ==
    /\ tpc[t] = "diag_firestore"
    /\ tpc' = [tpc EXCEPT ![t] = "diag_load"]
    /\ tlocal' = [tlocal EXCEPT ![t].actions =
                     Diagnose([openai_ok |-> tlocal[t].openai_ok,
                               firestore_ok |-> state.firestore_ok])]
    /\ UNCHANGED << state, hret, hcalls >>
    /\ UNCHANGED << pvars, ocall >>

\* run_basic_diagnostics, line 71: the load of self.state.history
T_Diagnostics_Load(t) ==
    /\ tpc[t] = "diag_load"
    /\ tpc' = [tpc EXCEPT ![t] = "diag_extend"]
    /\ tlocal' = [tlocal EXCEPT ![t].hist = state.history]
    /\ UNCHANGED << state, hret, hcalls >>
    /\ UNCHANGED << pvars, ocall >>

\* run_basic_diagnostics, lines 71-72: .extend(actions), one indivisible
\* call, and the return
T_Diagnostics_Extend(t) ==
    /\ tpc[t] = "diag_extend"
    /\ state' = [state EXCEPT
                   !.history = HistoryExtend(ListObject(tlocal[t].hist, @), tlocal[t].actions)]
    /\ hcalls' = Append(hcalls, Call("run_basic_diagnostics", "", tlocal[t].actions))
    /\ tpc' = [tpc EXCEPT ![t] = "idle"]
    /\ tlocal' = [tlocal EXCEPT ![t] = NoLocal]
    /\ UNCHANGED hret
    /\ UNCHANGED << pvars, ocall >>

NextConc ==
    \/ \E t \in Threads, err \in Errors : T_RecordError_SetLast(t, err)
    \/ \E t \in Threads : T_RecordError_Load(t)
    \/ \E t \in Threads : T_RecordError_Append(t)
    \/ \E t \in Threads : T_Diagnostics_OpenAi(t)
    \/ \E t \in Threads : T_Diagnostics_Firestore(t)
    \/ \E t \in Threads : T_Diagnostics_Load(t)
    \/ \E t \in Threads : T_Diagnostics_Extend(t)
    \/ \E o \in BOOLEAN, f \in BOOLEAN : SetHealth(o, f)

SpecConc == Init /\ [][NextConc]_vars

\* -------------------------------------- apply calls from several callers
\* The variables of the single call of Spec, with its record of what that
\* call staged and committed; overlapping calls keep their locals in ocall
\* and share the file system.
callvars == << enabled, pc, op, rel_path, new_content, commit_message,
               target_path, backup_path, test_result, logs, git_result, exc,
               result, fs0, trace, vcs >>

\* The call returns r: its locals are gone, the caller keeps the result and
\* what it passed as new_content. Of a result the status and the reason are
\* kept, and of a command's result whether it counts as a success: the test
\* output and the git log a result carries are those of Spec.
Returned(c, r) ==
    [pc |-> "returned", new_content |-> ocall[c].new_content, result |-> r]

\* apply_file_update(SharedRelPath, nc, msg) is entered by caller c.
O_Begin(c, nc, msg) ==
    /\ ocall[c].pc = "idle"
    /\ ocall' = [ocall EXCEPT ![c] =
                    [pc |-> "validate", new_content |-> nc, commit_message |-> msg,
                     target_path |-> NoPath, backup_path |-> NoPath,
                     test_result |-> NoResult, logs |-> <<>>, git_result |-> NoResult,
                     exc |-> NoExc]]
    /\ UNCHANGED fs
    /\ UNCHANGED << callvars, hvars >>

\* lines 93-110: resolve, existence test, containment test, backup_path
O_Validate(c) ==
    /\ ocall[c].pc = "validate"
    /\ LET tp == Resolve(JoinPath(ROOT_DIR, SharedRelPath))
       IN  ocall' = [ocall EXCEPT ![c] =
              IF ~Exists(fs, tp)
              THEN Returned(c, [status |-> "error", reason |-> "file_not_found"])
              ELSE IF ROOT_DIR \notin Parents(tp) /\ tp # ROOT_DIR
                   THEN Returned(c, [status |-> "error", reason |-> "outside_project_root"])
                   ELSE [@ EXCEPT !.pc = "backup", !.target_path = tp,
                                  !.backup_path = WithSuffixBak(tp)]]
    /\ UNCHANGED fs
    /\ UNCHANGED << callvars, hvars >>

\* 1. shutil.copy2(target_path, backup_path)
O_Backup(c) ==
    /\ ocall[c].pc = "backup"
    /\ \E o \in Copy2(fs, ocall[c].target_path, ocall[c].backup_path) :
          /\ fs' = o.fs
          /\ ocall' = [ocall EXCEPT ![c] =
                          IF o.ok THEN [@ EXCEPT !.pc = "write"]
                          ELSE [@ EXCEPT !.pc = "except", !.exc = "backup failed"]]
    /\ UNCHANGED << callvars, hvars >>

\* 2. target_path.write_text(new_content, encoding="utf-8")
O_Write(c) ==
    /\ ocall[c].pc = "write"
    /\ \E o \in WriteText(fs, ocall[c].target_path, ocall[c].new_content) :
          /\ fs' = o.fs
          /\ ocall' = [ocall EXCEPT ![c] =
                          IF o.ok THEN [@ EXCEPT !.pc = "test"]
                          ELSE [@ EXCEPT !.pc = "except", !.exc = "write failed"]]
    /\ UNCHANGED << callvars, hvars >>

\* 3. test_result = run_tests()
O_RunTests(c) ==
    /\ ocall[c].pc = "test"
    /\ \/ ocall' = [ocall EXCEPT ![c].pc = "except",
                                 ![c].exc = "pytest failed to launch"]
       \/ \E out \in CmdOutputs :
             ocall' = [ocall EXCEPT ![c].test_result =
                                        [success |-> TestResult(out).success],
                                    ![c].pc = IF TestResult(out).success THEN "git"
                                              ELSE "rollback_tests"]
    /\ UNCHANGED fs
    /\ UNCHANGED << callvars, hvars >>

\* The restore of lines 123 and 133: on success the call returns r, on a
\* fault the handler takes over.
O_Rollback(c, r) ==
    \E o \in Restore(fs, ocall[c].backup_path, ocall[c].target_path) :
       /\ fs' = o.fs
       /\ ocall' = [ocall EXCEPT ![c] =
                       IF o.ok THEN Returned(c, r)
                       ELSE [@ EXCEPT !.pc = "except", !.exc = "restore failed"]]

\* if not test_result.get("success"): restore, return tests_failed
O_RollbackTests(c) ==
    /\ ocall[c].pc = "rollback_tests"
    /\ O_Rollback(c, [status |-> "tests_failed"])
    /\ UNCHANGED << callvars, hvars >>

\* One iteration of git_commit_and_push's loop over add, commit, push.
O_GitStep(c) ==
    /\ ocall[c].pc = "git"
    /\ LET i == Len(ocall[c].logs) + 1
           cmd == GitCmds(ocall[c].commit_message)[i]
       IN  \/ ocall' = [ocall EXCEPT ![c].pc = "except",
                                     ![c].exc = cmd \o " failed to launch"]
           \/ \E out \in CmdOutputs :
                 LET res == RunCmd(cmd, out)
                     lg == Append(ocall[c].logs, res.cmd)
                 IN  ocall' = [ocall EXCEPT ![c] =
                           IF StepFails(res)
                           THEN [@ EXCEPT !.logs = lg, !.pc = "published",
                                          !.git_result = [success |-> FALSE]]
                           ELSE IF i = Len(GitCmds(ocall[c].commit_message))
                                THEN [@ EXCEPT !.logs = lg, !.pc = "published",
                                               !.git_result = [success |-> TRUE]]
                                ELSE [@ EXCEPT !.logs = lg]]
    /\ UNCHANGED fs
    /\ UNCHANGED << callvars, hvars >>

\* if not git_result.get("success"): restore, return git_failed
O_RollbackGit(c) ==
    /\ ocall[c].pc = "published"
    /\ ~ocall[c].git_result.success
    /\ O_Rollback(c, [status |-> "git_failed"])
    /\ UNCHANGED << callvars, hvars >>

\* return {"status": "ok", ...}
O_ReturnOk(c) ==
    /\ ocall[c].pc = "published"
    /\ ocall[c].git_result.success
    /\ ocall' = [ocall EXCEPT ![c] = Returned(c, [status |-> "ok"])]
    /\ UNCHANGED fs
    /\ UNCHANGED << callvars, hvars >>

\* except Exception: restore if the backup exists, return the exception result
O_HandleException(c) ==
    /\ ocall[c].pc = "except"
    /\ IF Exists(fs, ocall[c].backup_path)
       THEN \E o \in Restore(fs, ocall[c].backup_path, ocall[c].target_path) : fs' = o.fs
       ELSE UNCHANGED fs
    /\ ocall' = [ocall EXCEPT ![c] =
                    Returned(c, [status |-> "error", reason |-> "exception"])]
    /\ UNCHANGED << callvars, hvars >>

NextOverlap ==
    \/ \E c \in Callers, nc \in Contents, msg \in Messages : O_Begin(c, nc, msg)
    \/ \E c \in Callers : O_Validate(c)
    \/ \E c \in Callers : O_Backup(c)
    \/ \E c \in Callers : O_Write(c)
    \/ \E c \in Callers : O_RunTests(c)
    \/ \E c \in Callers : O_RollbackTests(c)
    \/ \E c \in Callers : O_GitStep(c)
    \/ \E c \in Callers : O_RollbackGit(c)
    \/ \E c \in Callers : O_ReturnOk(c)
    \/ \E c \in Callers : O_HandleException(c)

SpecOverlap == Init /\ [][NextOverlap]_vars

\* ----------------------------------------------------------------- claims
\* The tagged outcome of an apply result.
Outcome(r) == IF r.status = "error" THEN r.reason ELSE r.status

ApplyReturned == pc = "returned" /\ op = "apply"

Absent == [kind |-> "absent", data |-> <<>>]

NodeAt(f, p) == IF Exists(f, p) THEN f[p] ELSE Absent

\* p is neither the project root nor below it.
OutsideRoot(p) ==
    ~(Len(p) >= Len(ROOT_DIR) /\ SubSeq(p, 1, Len(ROOT_DIR)) = ROOT_DIR)

Resolved == op = "apply" /\ target_path # NoPath

VcsCmds == {GitCmds(commit_message)[i] : i \in 1..3}

VcsRan == \E i \in 1..Len(trace) : trace[i].step \in VcsCmds

BackupSucceeded == trace # <<>> /\ trace[1] = Event("backup", TRUE)

BackupFailed == trace # <<>> /\ trace[1] = Event("backup", FALSE)

NoFault == \A i \in 1..Len(trace) : trace[i].ok

\* The command's output says "nothing to commit", on either stream.
ReportsNothingToCommit(res) ==
    HasNothingToCommit(Lower(res.stdout)) \/ HasNothingToCommit(Lower(res.stderr))

\* C1: when an apply call that passed path validation returns tests_failed,
\* git_failed or exception, the target holds its pre-call bytes, and when it
\* returns ok the target holds new_content.
C1_Atomicity ==
    (ApplyReturned /\ Outcome(result) \in {"ok", "tests_failed", "git_failed", "exception"})
        => IF Outcome(result) = "ok"
           THEN NodeAt(fs, target_path) = File(new_content)
           ELSE NodeAt(fs, target_path) = NodeAt(fs0, target_path)

\* C2: when the backup step of an apply call fails, the call returns with
\* the target unchanged, whatever earlier calls left on disk.
C2_BackupFailureAborts ==
    (ApplyReturned /\ BackupFailed)
        => NodeAt(fs, target_path) = NodeAt(fs0, target_path)

\* C3: a rel_path that resolves outside the project root gets
\* outside_project_root, whether or not a file exists there, and the call
\* writes nothing and runs nothing.
C3_PathContainment ==
    (ApplyReturned /\ Resolved /\ OutsideRoot(target_path))
        => /\ Outcome(result) = "outside_project_root"
           /\ fs = fs0
           /\ trace = <<>>

\* C4: an apply call on a path inside the project root where no file exists
\* takes no step beyond the existence check, leaves the file system as it
\* was (no target, no backup), runs no command and returns file_not_found.
C4_NonExistentTarget ==
    (Resolved /\ ~OutsideRoot(target_path) /\ ~Exists(fs0, target_path))
        => /\ pc \in {"exists", "returned"}
           /\ fs = fs0
           /\ ~Exists(fs, target_path)
           /\ trace = <<>>
           /\ pc = "returned" => Outcome(result) = "file_not_found"

C4_Witness ==
    /\ ApplyReturned /\ Resolved
    /\ ~OutsideRoot(target_path)
    /\ ~Exists(fs0, target_path)
    /\ Outcome(result) = "file_not_found"

\* C5: when the test command exited non-zero, the call returns tests_failed
\* carrying the test result, and ran no VCS command.
C5_ValidationGate ==
    (ApplyReturned /\ test_result # NoResult /\ test_result.returncode # 0)
        => /\ Outcome(result) = "tests_failed"
           /\ result.tests = test_result
           /\ ~VcsRan

\* C6: new_content equal to the target's content, tests passing, add exiting
\* 0, commit exiting non-zero and reporting "nothing to commit", no fault and
\* no failing push: the call returns ok, the commit is in the publish log
\* and the push was attempted after it.
C6_NoOpUpdate ==
    ( /\ ApplyReturned
      /\ NodeAt(fs0, target_path) = File(new_content)
      /\ NoFault
      /\ test_result # NoResult /\ test_result.returncode = 0
      /\ Len(logs) >= 2
      /\ logs[1].returncode = 0
      /\ logs[2].returncode # 0 /\ ReportsNothingToCommit(logs[2])
      /\ Len(logs) = 3 => logs[3].returncode = 0 )
        => /\ Outcome(result) = "ok"
           /\ Len(result.git.log) = 3
           /\ result.git.log[2] = logs[2]
           /\ result.git.log[3].cmd = GitCmds(commit_message)[3]

\* C7: the publish steps run in the order add, commit, push, and a non-zero
\* exit of any step, other than a commit reporting "nothing to commit", ends
\* the publish as failed with no later step run.
C7_PublishAbortRule ==
    op = "apply" =>
        \A i \in 1..Len(logs) :
            /\ logs[i].cmd = GitCmds(commit_message)[i]
            /\ (logs[i].returncode # 0 /\ ~(i = 2 /\ ReportsNothingToCommit(logs[i])))
                  => /\ Len(logs) = i
                     /\ git_result # NoResult
                     /\ ~git_result.success

\* C8: with the feature flag off, apply and plan return a disabled result,
\* having touched no file and run no command.
C8_DisabledFlag ==
    (~enabled /\ pc = "returned")
        => /\ "status" \in DOMAIN result /\ result.status = "disabled"
           /\ fs = fs0
           /\ trace = <<>>

\* C9: once the backup step of an apply call succeeded, the backup file
\* exists beside the target and holds the target's bytes from the start of
\* the call, through every later step and outcome; target "A", new content
\* "B", tests and the three VCS steps exiting 0 returns ok with target "B"
\* and backup "A".
C9_BackupRetention ==
    /\ (op = "apply" /\ BackupSucceeded)
          => /\ Exists(fs, backup_path)
             /\ fs[backup_path] = NodeAt(fs0, target_path)
             /\ Len(backup_path) = Len(target_path)
             /\ backup_path # target_path
             /\ SubSeq(backup_path, 1, Len(backup_path) - 1)
                   = SubSeq(target_path, 1, Len(target_path) - 1)
             /\ pc = "returned" =>
                   Outcome(result) \in {"ok", "tests_failed", "git_failed", "exception"}
    /\ ( /\ ApplyReturned /\ Resolved
         /\ NodeAt(fs0, target_path) = File(<<"A">>)
         /\ new_content = <<"B">>
         /\ test_result # NoResult /\ test_result.returncode = 0
         /\ Len(logs) = 3
         /\ \A i \in 1..3 : logs[i].returncode = 0 )
          => /\ Outcome(result) = "ok"
             /\ NodeAt(fs, target_path) = File(<<"B">>)
             /\ NodeAt(fs, backup_path) = File(<<"A">>)

C9_Witness ==
    /\ ApplyReturned /\ BackupSucceeded
    /\ Outcome(result) = "ok"
    /\ NodeAt(fs0, target_path) = File(<<"A">>)
    /\ NodeAt(fs, target_path) = File(<<"B">>)
    /\ NodeAt(fs, backup_path) = File(<<"A">>)

\* C10: every apply call ends by returning one of the tagged outcomes; no
\* fault of a step propagates to the caller.
C10_NoFaultEscapes ==
    (op = "apply" /\ pc \in {"returned", "raised"})
        => /\ pc = "returned"
           /\ Outcome(result) \in {"ok", "tests_failed", "git_failed", "file_not_found",
                                   "outside_project_root", "exception"}

RestoreFaulted == \E i \in 1..Len(trace) : trace[i] = Event("restore", FALSE)

\* C11: when the restore step fails, the call still reports the primary
\* failure: tests_failed with the test result after a validation failure,
\* git_failed after a publish failure, and exception with the original
\* fault's text after an unexpected fault.
C11_RollbackNeverMasks ==
    (ApplyReturned /\ RestoreFaulted)
        => IF test_result # NoResult /\ ~test_result.success
           THEN Outcome(result) = "tests_failed" /\ result.tests = test_result
           ELSE IF git_result # NoResult /\ ~git_result.success
                THEN Outcome(result) = "git_failed" /\ result.git = git_result
                ELSE Outcome(result) = "exception" /\ result.detail # "restore failed"

\* This step completes a reporter call of the given name.
NewCall(name) ==
    /\ Len(hcalls') = Len(hcalls) + 1
    /\ hcalls'[Len(hcalls')].op = name

\* How many actions of a list carry the given name and status.
CountOf(acts, name, status) ==
    Cardinality({i \in 1..Len(acts) : acts[i][1] = name /\ acts[i][2] = status})

RECURSIVE LastRecorded(_)
\* The argument of the latest record_error among the calls, if any.
LastRecorded(calls) ==
    IF calls = <<>> THEN <<>>
    ELSE IF calls[Len(calls)].op = "record_error"
         THEN <<calls[Len(calls)].arg>>
         ELSE LastRecorded(SubSeq(calls, 1, Len(calls) - 1))

\* C12: record_error(text) returns, sets last_error to text and appends the
\* one entry (record_error, logged, text) at the end of the history, whose
\* earlier entries stay as they were.
C12_RecordError ==
    [][NewCall("record_error") =>
          LET e == hcalls'[Len(hcalls')].arg
          IN  /\ hret'.op = "record_error"
              /\ state'.last_error = <<e>>
              /\ Len(state'.history) = Len(state.history) + 1
              /\ state'.history[Len(state'.history)] = <<"record_error", "logged", e>>
              /\ SubSeq(state'.history, 1, Len(state.history)) = state.history]_vars

C12_Witness ==
    /\ hret.op = "record_error"
    /\ hcalls # <<>> /\ hcalls[Len(hcalls)].op = "record_error"
    /\ Len(state.history) >= 2
    /\ state.last_error = <<hcalls[Len(hcalls)].arg>>

\* C13: run_basic_diagnostics returns one needs_attention action per failing
\* health flag and no ok action then, exactly one ok action when no flag
\* fails, and never an empty list.
C13_Diagnostics ==
    [][NewCall("run_basic_diagnostics") =>
          LET acts == hret'.value
              nOpenAi == IF state.openai_ok THEN 0 ELSE 1
              nFirestore == IF state.firestore_ok THEN 0 ELSE 1
              nOk == IF state.openai_ok /\ state.firestore_ok THEN 1 ELSE 0
          IN  /\ hret'.op = "run_basic_diagnostics"
              /\ acts # <<>>
              /\ CountOf(acts, "check_openai_key", "needs_attention") = nOpenAi
              /\ CountOf(acts, "check_firestore", "needs_attention") = nFirestore
              /\ CountOf(acts, "basic_diagnostics", "ok") = nOk
              /\ Len(acts) = nOpenAi + nFirestore + nOk]_vars

C13_Witness ==
    /\ hret.op = "run_basic_diagnostics"
    /\ Len(hret.value) = 2
    /\ ~state.openai_ok /\ ~state.firestore_ok

\* C14: heal() returns status ok, the actions run_basic_diagnostics returns
\* for the current health flags, and as last_error the argument of the most
\* recent record_error call, or null when there was none.
C14_Heal ==
    [][NewCall("heal") =>
          LET v == hret'.value
              d == Diagnose(state)
          IN  /\ hret'.op = "heal"
              /\ v.status = "ok"
              /\ v.last_error = LastRecorded(hcalls)
              /\ Len(v.actions) = Len(d)
              /\ \A i \in 1..Len(d) :
                    /\ v.actions[i].name = d[i][1]
                    /\ v.actions[i].status = d[i][2]
                    /\ v.actions[i].detail = d[i][3]]_vars

C14_Witness ==
    /\ hret.op = "heal"
    /\ hret.value.last_error = <<"e2">>
    /\ Len(hcalls) = 3
    /\ hcalls[1].op = "record_error" /\ hcalls[1].arg = "e1"
    /\ hcalls[2].op = "record_error" /\ hcalls[2].arg = "e2"

\* C15: make_update_plan returns a plan echoing target_file and goal, and the
\* call changes no file, runs no command and leaves the reporter as it was,
\* whatever the target is.
C15_PlanPure ==
    [][(CanCall /\ op' = "plan")
          => /\ pc' = "returned"
             /\ fs' = fs
             /\ trace' = <<>>
             /\ vcs' = NoVcs
             /\ state' = state /\ hcalls' = hcalls
             /\ DOMAIN result' = {"target_file", "goal", "suggested_steps"}
             /\ \A tf \in RelPaths, g \in Goals :
                   MakeUpdatePlan(tf, g) => result'.target_file = tf /\ result'.goal = g]_vars

C15_Witness ==
    /\ op = "plan" /\ pc = "returned"
    /\ result.target_file = <<"..", "m">>
    /\ fs # InitFs

\* The positions in the trace of the events of the given step.
StepsAt(step) == {i \in 1..Len(trace) : trace[i].step = step}

\* C16: within one apply call the target is not written before the call's
\* backup copy succeeded, the test command runs only after the write, no VCS
\* command runs before the test command returned 0, and ok is returned only
\* after add, commit and push were each run, in that order, and the publish
\* was accepted.
C16_StepOrdering ==
    (op = "apply" /\ Resolved) =>
        /\ ~BackupSucceeded => NodeAt(fs, target_path) = NodeAt(fs0, target_path)
        /\ \A i \in StepsAt("write") : i = 2 /\ BackupSucceeded
        /\ \A i \in StepsAt("pytest") : i = 3 /\ trace[2] = Event("write", TRUE)
        /\ \A i \in 1..Len(trace) :
              trace[i].step \in VcsCmds
                  => /\ i > 3 /\ trace[3] = Event("pytest", TRUE)
                     /\ test_result # NoResult /\ test_result.returncode = 0
        /\ (pc = "returned" /\ Outcome(result) = "ok")
              => /\ Len(trace) = 6
                 /\ \A k \in 1..3 : trace[3 + k] = Event(GitCmds(commit_message)[k], TRUE)
                 /\ git_result.success

\* C17: tests passing, add and commit exiting 0 and push exiting non-zero:
\* the call returns git_failed with the three results, the target is back
\* to its pre-call content, and the local history keeps the commit holding
\* the new content.
C17_PartialPublish ==
    ( /\ ApplyReturned
      /\ test_result # NoResult /\ test_result.returncode = 0
      /\ Len(logs) = 3
      /\ logs[1].returncode = 0 /\ logs[2].returncode = 0 /\ logs[3].returncode # 0 )
        => /\ Outcome(result) = "git_failed"
           /\ result.git.log = logs
           /\ NodeAt(fs, target_path) = NodeAt(fs0, target_path)
           /\ vcs.commits = <<File(new_content)>>

\* C19: when an apply call returns a non-ok outcome, the reporter's history
\* holds an error entry for the failure.
C19_FailuresLogged ==
    (ApplyReturned /\ Outcome(result) # "ok")
        => \E i \in 1..Len(state.history) : state.history[i][1] = "record_error"

\* A step of the apply call in flight.
CallStep ==
    \/ ResolveTarget \/ CheckExists \/ CheckRoot \/ Backup \/ WriteNew \/ RunTests
    \/ RollbackTests \/ GitStep \/ RollbackGit \/ ReturnOk \/ HandleException

\* C20: an apply call whose commands all return goes on until it returns a
\* result, and by then ran the test command and each VCS command at most
\* once and restored the target successfully at most once.
C20_TerminatesWithoutRetry ==
    op = "apply" =>
        /\ pc # "raised"
        /\ pc # "returned" => ENABLED CallStep
        /\ \A c \in {"pytest"} \cup VcsCmds : Cardinality(StepsAt(c)) <= 1
        /\ Cardinality({i \in StepsAt("restore") : trace[i].ok}) <= 1

\* The entries a reporter call may log.
Entries ==
    {HealAction("record_error", "logged", e) : e \in Errors}
        \cup {OpenAiAction, FirestoreAction, OkAction}

\* How many times the entry e occurs in the list of entries h.
Occurrences(h, e) == Cardinality({i \in 1..Len(h) : h[i] = e})

RECURSIVE Logged(_, _)
\* How many times the calls, taken together, logged the entry e.
Logged(calls, e) ==
    IF calls = <<>> THEN 0
    ELSE Occurrences(calls[Len(calls)].entries, e)
             + Logged(SubSeq(calls, 1, Len(calls) - 1), e)

AllReturned == \A t \in Threads : tpc[t] = "idle"

\* C18: once every concurrent record_error and run_basic_diagnostics call
\* has returned, the history holds each call's entries exactly once: no
\* entry is lost and none is doubled, whatever the interleaving.
C18_NoLostUpdate ==
    AllReturned =>
        /\ \A e \in Entries : Occurrences(state.history, e) = Logged(hcalls, e)
        /\ \A i \in 1..Len(state.history) : state.history[i] \in Entries

\* Two record_error calls overlapped (the one that set last_error last was
\* not the one that appended last) around a diagnostics call that logged two
\* entries, and all three have returned.
C18_Witness ==
    /\ AllReturned
    /\ Len(hcalls) = MaxCalls
    /\ \E i, j, k \in 1..Len(hcalls) :
          /\ i < j
          /\ hcalls[i].op = "record_error" /\ hcalls[j].op = "record_error"
          /\ hcalls[k].op = "run_basic_diagnostics" /\ Len(hcalls[k].entries) = 2
    /\ state.last_error # LastRecorded(hcalls)

\* C22: every reporter call leaves the previous history as a prefix of the
\* new one, and run_basic_diagnostics and heal append exactly the actions
\* they return: the history never shrinks and no entry is removed or
\* rewritten.
C22_AppendOnly ==
    [][/\ Len(state'.history) >= Len(state.history)
       /\ SubSeq(state'.history, 1, Len(state.history)) = state.history
       /\ NewCall("record_error") => Len(state'.history) = Len(state.history) + 1
       /\ NewCall("run_basic_diagnostics")
             => state'.history = state.history \o hret'.value
       /\ NewCall("heal")
             => /\ Len(state'.history) = Len(state.history) + Len(hret'.value.actions)
                /\ \A i \in 1..Len(hret'.value.actions) :
                      AsDict(state'.history[Len(state.history) + i])
                          = hret'.value.actions[i]]_vars

C22_Witness ==
    /\ Len(hcalls) = 3
    /\ hcalls[1].op = "record_error"
    /\ hcalls[2].op = "run_basic_diagnostics" /\ Len(hcalls[2].entries) = 2
    /\ hcalls[3].op = "heal" /\ hret.op = "heal"
    /\ Len(state.history) = 1 + 2 + Len(hret.value.actions)
    /\ state.history[1] = HealAction("record_error", "logged", hcalls[1].arg)

RECURSIVE LatestRecordError(_)
\* The detail of the latest record_error entry of a history, if any.
LatestRecordError(h) ==
    IF h = <<>> THEN None
    ELSE IF h[Len(h)][1] = "record_error"
         THEN Some(h[Len(h)][3])
         ELSE LatestRecordError(SubSeq(h, 1, Len(h) - 1))

\* C23: last_error is null exactly when the history holds no record_error
\* entry, and otherwise is the detail of the latest record_error entry, after
\* any sequence and any concurrent interleaving of reporter calls. The states
\* in the middle of a call are left out: the claim is held to the states in
\* which every call begun has returned.
C23_LastErrorConsistent ==
    AllReturned => state.last_error = LatestRecordError(state.history)

\* C24: over serialized apply calls a rollback restores the content the
\* target had when the failing call started, never an older one, and a call
\* that reached the write step has first put that content in the backup.
C24_RollbackToCallStart ==
    (op = "apply" /\ Resolved) =>
        /\ (trace # <<>> /\ trace[Len(trace)] = Event("restore", TRUE))
              => NodeAt(fs, target_path) = NodeAt(fs0, target_path)
        /\ StepsAt("write") # {}
              => NodeAt(fs, backup_path) = NodeAt(fs0, target_path)

OverlapTarget == Resolve(JoinPath(ROOT_DIR, SharedRelPath))

BothReturned == \A c \in Callers : ocall[c].pc = "returned"

\* C21: for any interleaving of the steps of two apply calls on the same
\* file, once both have returned the target holds its original content or
\* the new content of a call that returned ok.
C21_OverlappingCalls ==
    BothReturned =>
        \/ NodeAt(fs, OverlapTarget) = NodeAt(InitFs, OverlapTarget)
        \/ \E c \in Callers :
              /\ Outcome(ocall[c].result) = "ok"
              /\ NodeAt(fs, OverlapTarget) = File(ocall[c].new_content)

====
